---------------------------- MODULE Spec2Model ----------------------------
(***************************************************************************)
(* A model of the item admission handler put_item of src/src/server.rs     *)
(* (the PUT /u/{userID}/i/{signature}/proto3 route), run by several        *)
(* concurrent workers against one shared item store, and of get_item,      *)
(* which reads that store.                                                 *)
(*                                                                         *)
(* A byte string is modelled as the sequence of protobuf fields it         *)
(* encodes; every field carries the number of bytes it occupies, so that   *)
(* sizes keep their real magnitude (MAX_ITEM_SIZE is 32768).  The body of  *)
(* a request arrives one field per chunk.                                  *)
(*                                                                         *)
(* The second part models the listing handlers (view_homepage,             *)
(* homepage_item_list, feed_item_list, user_item_list, get_user_feed,      *)
(* get_user_items) and the Paginator they share: one listing request at a  *)
(* time scans a fixed store, and a reader follows the pages (SpecPage,     *)
(* SpecWalk).                                                              *)
(***************************************************************************)
EXTENDS Integers, Sequences, FiniteSets

(***************************************************************************)
(* Bounds of the model.                                                    *)
(***************************************************************************)
\* The node's clock runs from 1 to MaxClock.
MaxClock == 2

\* The concurrent workers (actix runs one handler future per request).
Workers == {"w1", "w2"}

\* The identities that submit items; only the first is known to the node.
Users == {"u1", "u2"}

(***************************************************************************)
(* Program constants.                                                      *)
(***************************************************************************)
MAX_ITEM_SIZE == 1024 * 32

\* The per-user storage budget in bytes (spec 4.4, budget(user)).
Budget == 50000

(***************************************************************************)
(* Wire bytes.                                                             *)
(***************************************************************************)
\* The claimed-timestamp field (timestamp_ms_utc) with value t.
TS(t) == [f |-> "ts", v |-> t, n |-> 8]
\* A Post variant occupying n bytes.
POST(n) == [f |-> "post", v |-> 0, n |-> n]
\* A field this node does not know (a future variant), n bytes.
PAD(n) == [f |-> "pad", v |-> 0, n |-> n]
\* A Profile variant occupying n bytes.
PROFILE(n) == [f |-> "profile", v |-> 0, n |-> n]
\* A Profile variant whose follow list names the identities `users`.
FOLLOWING(users, n) == [f |-> "profile", v |-> 0, n |-> n, follows |-> users]
\* Bytes that are no protobuf field at all.
BAD == [f |-> "bad", v |-> 0, n |-> 3]

RECURSIVE ByteLen(_)
\* bytes.len(): the number of bytes of a byte string.
ByteLen(bs) == IF bs = <<>> THEN 0 ELSE Head(bs).n + ByteLen(Tail(bs))

\* A post of exactly MAX_ITEM_SIZE bytes, and one claiming a later time.
PostA == <<TS(1), POST(MAX_ITEM_SIZE - 8)>>
PostB == <<TS(2), POST(MAX_ITEM_SIZE - 8)>>
\* The same post as <<TS(1), POST(100)>>, encoded with a repeated field.
NonCanon == <<TS(2), TS(1), POST(100)>>
\* PostA followed by 10000 more bytes: 42768 bytes in all.
Oversize == PostA \o <<PAD(10000)>>
Garbage == <<BAD>>
NoVariant == <<TS(1)>>

(***************************************************************************)
(* IdentityCodec and ItemCodec (crate::backend, crate::protos).            *)
(***************************************************************************)
\* The signature the holder of user's secret key computes over msg.
Sign(user, msg) == [key |-> user, msg |-> msg]

\* Signature::is_valid(&user, &bytes)
IsValid(signature, user, bs) == signature = Sign(user, bs)

\* Item::new()
NewItem == [timestamp_ms_utc |-> 0, item_type |-> "none", unknown |-> FALSE]

\* One field merged into an item: a scalar is overwritten, the oneof is set,
\* an unknown field is kept aside.
MergeField(item, fld) ==
    CASE fld.f = "ts" -> [item EXCEPT !.timestamp_ms_utc = fld.v]
      [] fld.f = "post" -> [item EXCEPT !.item_type = "post"]
      [] fld.f = "profile" -> [item EXCEPT !.item_type = "profile"]
      [] OTHER -> [item EXCEPT !.unknown = TRUE]

RECURSIVE MergeFields(_, _)
MergeFields(item, bs) ==
    IF bs = <<>> THEN item ELSE MergeFields(MergeField(item, Head(bs)), Tail(bs))

\* item.merge_from_bytes(&bytes): fails on bytes that are no field.
Parses(bs) == \A i \in 1..Len(bs) : bs[i].f # "bad"
merge_from_bytes(bs) == MergeFields(NewItem, bs)

\* item.validate(): exactly one variant is set; an unknown variant is accepted.
validate(item) == item.item_type # "none" \/ item.unknown

(***************************************************************************)
(* Requests.                                                               *)
(***************************************************************************)
\* The content-length header as put_item sees it.
NoHeader == [k |-> "absent", n |-> 0]
\* A header value that is not visible ASCII (HeaderValue::to_str fails).
OpaqueHeader == [k |-> "opaque", n |-> 0]
\* A header value that is text but no number.
TextHeader == [k |-> "text", n |-> 0]
Declared(n) == [k |-> "num", n |-> n]

Submission(user, signature, body, declared) ==
    [user |-> user, signature |-> signature, body |-> body, declared |-> declared]

\* An honest submission: signed by its user, declaring its real length.
Honest(user, body) == Submission(user, Sign(user, body), body, Declared(ByteLen(body)))

Subs ==
    { Honest("u1", PostA), Honest("u1", PostB), Honest("u1", NonCanon),
      Honest("u1", Garbage), Honest("u1", NoVariant), Honest("u2", PostA) }
    \cup { Submission("u1", Sign("u1", PostA), PostA, d) :
             d \in {NoHeader, OpaqueHeader, TextHeader, Declared(MAX_ITEM_SIZE + 1)} }
    \* signed by another key
    \cup { Submission("u1", Sign("u2", NoVariant), NoVariant, Declared(ByteLen(NoVariant))),
           Submission("u2", Sign("u1", PostA), PostA, Declared(ByteLen(PostA))) }
    \* the signed bytes of PostA with more bytes appended: the sender declares
    \* the length of PostA and sends more
    \cup { Submission("u1", Sign("u1", PostA), Oversize, Declared(ByteLen(PostA))) }

NoSub == Submission("none", Sign("none", <<>>), <<>>, NoHeader)

\* Option<T>.
None == [some |-> FALSE, v |-> 0]
Some(x) == [some |-> TRUE, v |-> x]

\* struct Pagination { before: Option<i64>, count: Option<usize> }
Pagination(before, count) == [before |-> before, count |-> count]

(***************************************************************************)
(* Outcomes: Ok(HttpResponse) with a status and a body, or Err(Error),     *)
(* which actix renders as 500 with the error's text.                       *)
(***************************************************************************)
Resp(status, text) == [kind |-> "Ok", status |-> status, body |-> text]
Err(text) == [kind |-> "Err", status |-> 500, body |-> text]
NoOutcome == [kind |-> "none", status |-> 0, body |-> ""]

Created == Resp(201, "OK. Received {} bytes.")
AlreadyExists == Resp(202, "Item already exists")
UnknownUserID == Resp(403, "Unknown user ID")
LengthRequired == Resp(411, "Must include length header.")
LengthUnparseable == Resp(400, "Error parsing Length header.")
PayloadTooLarge == Resp(413, "Item must be <= {} bytes")
InFuture == Resp(400, "The Item's timestamp is in the future")
NoSuchItem == Resp(404, "No such item")
InsufficientStorage == Resp(507, "{deny_reason}")

\* The result of one stretch of the handler: the checks it ran, the branch
\* that ended the request ("none": the handler goes on) and the outcome.
Step(ran, branch, result) ==
    [checks |-> ran, failed |-> branch, outcome |-> result]
Pass(checks) == Step(checks, "none", NoOutcome)

VARIABLES
    now,        \* Timestamp::now(): the node's clock
    known,      \* the known-user set of the backend
    store,      \* the item table of the backend: a set of ItemRows
    pc,         \* where each worker's handler stands
    sub,        \* the request each worker serves
    opened,     \* whether the handler has opened the backend
    bytes,      \* the handler's buffer `bytes`
    outcome,    \* what the handler returned
    failed,     \* the branch that ended the request
    checks,     \* the checks the handler has run, in order
    checkedAt,  \* the clock value the timestamp check read
    prior       \* an identical submission had ended Created before this one began

\* The state of a listing request (view_homepage, homepage_item_list,
\* feed_item_list, user_item_list, get_user_feed, get_user_items).
VARIABLES
    ep,         \* the listing handler that runs, "none" when none does
    params,     \* its Pagination query: before and count, each optional
    max_items,  \* Paginator.max_items, or the handler's local max_items
    table,      \* the rows a listing scans, newest first (the store's index)
    served,     \* how many rows of the scan the backend has passed to the callback
    items,      \* the items collected for the page
    has_more,   \* the has_more flag
    ppc,        \* "idle", "scan", "page" (Ok: the page is rendered), "error" (Err)
    visited,    \* the items of the pages the reader has left behind
    origin      \* the cursor of the first page of the walk

pageVars == <<ep, params, max_items, table, served, items, has_more, ppc,
              visited, origin>>

vars == <<now, known, store, pc, sub, opened, bytes, outcome, failed, checks,
          checkedAt, prior, pageVars>>

reqVars == <<pc, sub, opened, bytes, outcome, failed, checks, checkedAt, prior>>

putVars == <<now, known, store, reqVars>>

(***************************************************************************)
(* The backend (crate::backend), as spec 4.3 and 4.4 state its contract.   *)
(***************************************************************************)
\* backend.user_item_exists(&user, &signature)
user_item_exists(user, signature) ==
    \E row \in store : row.user = user /\ row.signature = signature

\* backend.user_known(&user)
user_known(user) == user \in known

RECURSIVE SumLen(_)
SumLen(rows) ==
    IF rows = {} THEN 0
    ELSE LET row == CHOOSE x \in rows : TRUE
         IN ByteLen(row.item_bytes) + SumLen(rows \ {row})

\* currentUsage(user): the bytes of the user's stored items.
Usage(user) == SumLen({row \in store : row.user = user})

\* backend.quota_check_item(&user, &bytes, &item): TRUE for Some(deny_reason).
quota_check_item(user, bs) == Usage(user) + ByteLen(bs) > Budget

\* backend.user_item(&user, &signature): the row stored under the key, if any.
user_item(user, signature) ==
    IF user_item_exists(user, signature)
    THEN Some(CHOOSE row \in store : row.user = user /\ row.signature = signature)
    ELSE None

\* The latest-profile pointer of a user: derived from the rows, the user's
\* Profile with the newest claimed timestamp.
latest_profile(rows, user) ==
    LET profiles == {row \in rows : /\ row.user = user
                                    /\ merge_from_bytes(row.item_bytes).item_type = "profile"}
    IN IF profiles = {} THEN None
       ELSE Some(CHOOSE row \in profiles : \A q \in profiles : q.timestamp <= row.timestamp)

\* backend.save_user_item(&row, &item): the insert fails on a row whose
\* primary key (user, signature) is taken.
CanInsert(row) == ~user_item_exists(row.user, row.signature)

(***************************************************************************)
(* put_item, stretch by stretch.                                           *)
(***************************************************************************)
\* LengthCheck with `>=` written for `>`.
LengthCheckOffByOne(declared) ==
    CASE declared.k = "absent" ->
            Step(<<"length">>, "LengthMissing", LengthRequired)
      [] declared.k = "opaque" ->
            Step(<<"length">>, "HeaderError", Err("ToStrError"))
      [] declared.k = "text" ->
            Step(<<"length">>, "LengthUnparseable", LengthUnparseable)
      [] OTHER ->
            IF declared.n >= MAX_ITEM_SIZE
            THEN Step(<<"length">>, "TooLarge", PayloadTooLarge)
            ELSE Pass(<<"length">>)

\* The content-length header is read, parsed and compared.
LengthCheck(declared) ==
    CASE declared.k = "absent" ->
            Step(<<"length">>, "LengthMissing", LengthRequired)
      [] declared.k = "opaque" ->
            Step(<<"length">>, "HeaderError", Err("ToStrError"))
      [] declared.k = "text" ->
            Step(<<"length">>, "LengthUnparseable", LengthUnparseable)
      [] OTHER ->
            IF declared.n > MAX_ITEM_SIZE
            THEN Step(<<"length">>, "TooLarge", PayloadTooLarge)
            ELSE Pass(<<"length">>)

\* ExistsBranch without the early return.
ExistsIgnored(found) == Pass(<<"exists">>)

\* If the content already exists, do nothing.
ExistsBranch(found) ==
    IF found THEN Step(<<"exists">>, "AlreadyAccepted", AlreadyExists)
    ELSE Pass(<<"exists">>)

\* KnownBranch without the early return.
KnownIgnored(isKnown) == Pass(<<"known">>)

\* if !backend.user_known(&user) { return Forbidden }
KnownBranch(isKnown) ==
    IF ~isKnown THEN Step(<<"known">>, "UnknownUser", UnknownUserID)
    ELSE Pass(<<"known">>)

\* Verify with the timestamp compared before the signature is checked.
VerifyTimestampFirst(user, signature, bs, t) ==
    IF Parses(bs) /\ merge_from_bytes(bs).timestamp_ms_utc > t
    THEN Step(<<"timestamp">>, "FutureTimestamp", InFuture)
    ELSE IF ~IsValid(signature, user, bs)
    THEN Step(<<"timestamp", "signature">>, "InvalidSignature", Err("Invalid signature"))
    ELSE IF ~Parses(bs)
    THEN Step(<<"timestamp", "signature", "decode">>, "MalformedItem", Err("ProtobufError"))
    ELSE IF ~validate(merge_from_bytes(bs))
    THEN Step(<<"timestamp", "signature", "decode">>, "MalformedItem", Err("ValidationError"))
    ELSE Pass(<<"timestamp", "signature", "decode">>)

\* Verify without the comparison of the claimed timestamp with the clock.
VerifyNoTimestamp(user, signature, bs, t) ==
    IF ~IsValid(signature, user, bs)
    THEN Step(<<"signature">>, "InvalidSignature", Err("Invalid signature"))
    ELSE IF ~Parses(bs)
    THEN Step(<<"signature", "decode">>, "MalformedItem", Err("ProtobufError"))
    ELSE IF ~validate(merge_from_bytes(bs))
    THEN Step(<<"signature", "decode">>, "MalformedItem", Err("ValidationError"))
    ELSE Pass(<<"signature", "decode", "timestamp">>)

\* The stream has ended: the signature is checked over the buffer, the item
\* is decoded and validated, and its timestamp is compared with the clock t.
Verify(user, signature, bs, t) ==
    IF ~IsValid(signature, user, bs)
    THEN Step(<<"signature">>, "InvalidSignature", Err("Invalid signature"))
    ELSE IF ~Parses(bs)
    THEN Step(<<"signature", "decode">>, "MalformedItem", Err("ProtobufError"))
    ELSE IF ~validate(merge_from_bytes(bs))
    THEN Step(<<"signature", "decode">>, "MalformedItem", Err("ValidationError"))
    ELSE IF merge_from_bytes(bs).timestamp_ms_utc > t
    THEN Step(<<"signature", "decode", "timestamp">>, "FutureTimestamp", InFuture)
    ELSE Pass(<<"signature", "decode", "timestamp">>)

\* QuotaBranch dropping the deny reason the backend returned.
QuotaBranchIgnored(denied) == Pass(<<"quota">>)

\* `if let Some(deny_reason) = quota { return InsufficientStorage }`.
QuotaBranch(denied) ==
    IF denied THEN Step(<<"quota">>, "QuotaExceeded", InsufficientStorage)
    ELSE Pass(<<"quota">>)

\* The bytes a parsed item is written back as: the timestamp once, then the
\* variant, then the unknown fields.
Reserialize(bs) ==
    <<TS(merge_from_bytes(bs).timestamp_ms_utc)>>
      \o SelectSeq(bs, LAMBDA fld : fld.f \in {"post", "profile"})
      \o SelectSeq(bs, LAMBDA fld : fld.f = "pad")

\* NewRow storing the parsed item written back, not the received bytes.
NewRowReserialized(user, signature, bs, t) ==
    [user |-> user,
     signature |-> signature,
     timestamp |-> merge_from_bytes(bs).timestamp_ms_utc,
     received |-> t,
     item_bytes |-> Reserialize(bs)]

\* NewRow stamping `received` with a time before the clock read.
NewRowReceivedEarlier(user, signature, bs, t) ==
    [user |-> user,
     signature |-> signature,
     timestamp |-> merge_from_bytes(bs).timestamp_ms_utc,
     received |-> t - 1,
     item_bytes |-> bs]

\* The ItemRow put_item builds; t is the clock read for `received`.
NewRow(user, signature, bs, t) ==
    [user |-> user,
     signature |-> signature,
     timestamp |-> merge_from_bytes(bs).timestamp_ms_utc,
     received |-> t,
     item_bytes |-> bs]

\* A backend call that returns Err: `.compat()?` leaves the handler.
StorageError(checked) == Step(checked, "Storage", Err("backend"))

\* What body.next() can yield to the handler of a request whose buffer holds
\* `got` of the body's chunks: the next chunk or an error of the transfer
\* while chunks are outstanding, None after the last one.
StreamEvents(body, got) == IF got < Len(body) THEN {"chunk", "error"} ELSE {"none"}

\* OnBodyEvent leaving the loop on a failed chunk (`break` for `?`).
OnBodyEventBreak(e) ==
    CASE e = "chunk" -> "extend"
      [] OTHER -> "verify"

\* `while let Some(chunk) = body.next().await { let chunk = chunk...?; ... }`:
\* a chunk extends the buffer, an error leaves the handler, None ends the loop.
OnBodyEvent(e) ==
    CASE e = "chunk" -> "extend"
      [] e = "error" -> "fail"
      [] OTHER -> "verify"

(***************************************************************************)
(* The state machine.                                                      *)
(***************************************************************************)
\* No put_item request is in progress.
NoRequest ==
    /\ pc = [w \in Workers |-> "idle"]
    /\ sub = [w \in Workers |-> NoSub]
    /\ opened = [w \in Workers |-> FALSE]
    /\ bytes = [w \in Workers |-> <<>>]
    /\ outcome = [w \in Workers |-> NoOutcome]
    /\ failed = [w \in Workers |-> "none"]
    /\ checks = [w \in Workers |-> <<>>]
    /\ checkedAt = [w \in Workers |-> 0]
    /\ prior = [w \in Workers |-> FALSE]

\* No listing request is in progress over the rows tbl.
NoListing(tbl) ==
    /\ ep = "none"
    /\ params = Pagination(None, None)
    /\ max_items = 0
    /\ table = tbl
    /\ served = 0
    /\ items = <<>>
    /\ has_more = FALSE
    /\ ppc = "idle"
    /\ visited = <<>>
    /\ origin = 0

Init ==
    /\ now = 1
    /\ known = {"u1"}
    /\ store = {}
    /\ NoRequest
    /\ NoListing(<<>>)

\* The handler of worker w has run the stretch st: it returns st.outcome, or
\* goes on at `next`.
Advance(w, st, next) ==
    /\ checks' = [checks EXCEPT ![w] = @ \o st.checks]
    /\ failed' = [failed EXCEPT ![w] = st.failed]
    /\ outcome' = [outcome EXCEPT ![w] = st.outcome]
    /\ pc' = [pc EXCEPT ![w] = IF st.failed = "none" THEN next ELSE "done"]

\* A request arrives at worker w; the handler checks its content-length.
Start(w) ==
    /\ pc[w] = "idle"
    /\ \E s \in Subs :
        /\ sub' = [sub EXCEPT ![w] = s]
        /\ prior' = [prior EXCEPT ![w] =
                       \E q \in Workers : /\ pc[q] = "done"
                                          /\ sub[q] = s
                                          /\ outcome[q] = Created]
        /\ Advance(w, LengthCheck(s.declared), "exists")
    /\ UNCHANGED <<now, known, store, opened, bytes, checkedAt>>
    /\ UNCHANGED pageVars

\* backend_factory.open(), then user_item_exists.
Exists(w) ==
    /\ pc[w] = "exists"
    /\ \E okOpen \in BOOLEAN, okQuery \in BOOLEAN :
        /\ opened' = [opened EXCEPT ![w] = okOpen]
        /\ Advance(w,
              IF ~okOpen THEN StorageError(<<>>)
              ELSE IF ~okQuery THEN StorageError(<<"exists">>)
              ELSE ExistsBranch(user_item_exists(sub[w].user, sub[w].signature)),
              "known")
    /\ UNCHANGED <<now, known, store, sub, bytes, checkedAt, prior>>
    /\ UNCHANGED pageVars

\* user_known.
Known(w) ==
    /\ pc[w] = "known"
    /\ \E ok \in BOOLEAN :
        Advance(w,
            IF ~ok THEN StorageError(<<"known">>)
            ELSE KnownBranch(user_known(sub[w].user)),
            "read")
    /\ UNCHANGED <<now, known, store, sub, opened, bytes, checkedAt, prior>>
    /\ UNCHANGED pageVars

\* The handler's reaction `act` to what body.next() yielded.
React(w, act) ==
    /\ bytes' = [bytes EXCEPT ![w] =
                   IF act = "extend" THEN Append(@, sub[w].body[Len(@) + 1]) ELSE @]
    /\ checkedAt' = [checkedAt EXCEPT ![w] = IF act = "verify" THEN now ELSE @]
    /\ Advance(w,
          CASE act = "extend" -> Pass(<<>>)
            [] act = "fail" -> Step(<<>>, "Transfer", Err("Error parsing chunk"))
            [] OTHER -> Verify(sub[w].user, sub[w].signature, bytes[w], now),
          IF act = "verify" THEN "quota" ELSE "read")
    /\ UNCHANGED <<now, known, store, sub, opened, prior>>
    /\ UNCHANGED pageVars

\* body.next() yields Some(Ok(chunk)).
ReadChunk(w) ==
    /\ pc[w] = "read"
    /\ "chunk" \in StreamEvents(sub[w].body, Len(bytes[w]))
    /\ React(w, OnBodyEvent("chunk"))

\* body.next() yields Some(Err(_)): the transfer failed.
ChunkError(w) ==
    /\ pc[w] = "read"
    /\ "error" \in StreamEvents(sub[w].body, Len(bytes[w]))
    /\ React(w, OnBodyEvent("error"))

\* body.next() yields None: signature, decoding, validation, timestamp.
EndOfBody(w) ==
    /\ pc[w] = "read"
    /\ "none" \in StreamEvents(sub[w].body, Len(bytes[w]))
    /\ React(w, OnBodyEvent("none"))

\* The client goes away while the handler awaits a chunk: actix drops the
\* handler's future, which returns nothing.
Abort(w) ==
    /\ pc[w] = "read"
    /\ Len(bytes[w]) < Len(sub[w].body)
    /\ Advance(w, Step(<<>>, "Dropped", NoOutcome), "read")
    /\ UNCHANGED <<now, known, store, sub, opened, bytes, checkedAt, prior>>
    /\ UNCHANGED pageVars

\* quota_check_item.
Quota(w) ==
    /\ pc[w] = "quota"
    /\ \E ok \in BOOLEAN :
        Advance(w,
            IF ~ok THEN StorageError(<<"quota">>)
            ELSE QuotaBranch(quota_check_item(sub[w].user, bytes[w])),
            "save")
    /\ UNCHANGED <<now, known, store, sub, opened, bytes, checkedAt, prior>>
    /\ UNCHANGED pageVars

\* Save whose failed insert leaves the row behind.
SaveTorn(w) ==
    /\ pc[w] = "save"
    /\ LET row == NewRow(sub[w].user, sub[w].signature, bytes[w], now)
       IN \E ok \in BOOLEAN :
            IF ok /\ CanInsert(row)
            THEN /\ store' = store \cup {row}
                 /\ Advance(w, Step(<<"persist">>, "Created", Created), "done")
            ELSE /\ store' = store \cup {row}
                 /\ Advance(w, StorageError(<<"persist">>), "done")
    /\ UNCHANGED <<now, known, sub, opened, bytes, checkedAt, prior>>
    /\ UNCHANGED pageVars

\* Save keeping only the newest row of the user.
SaveEvict(w) ==
    /\ pc[w] = "save"
    /\ LET row == NewRow(sub[w].user, sub[w].signature, bytes[w], now)
       IN \E ok \in BOOLEAN :
            IF ok /\ CanInsert(row)
            THEN /\ store' = {r \in store : r.user # row.user} \cup {row}
                 /\ Advance(w, Step(<<"persist">>, "Created", Created), "done")
            ELSE /\ store' = store
                 /\ Advance(w, StorageError(<<"persist">>), "done")
    /\ UNCHANGED <<now, known, sub, opened, bytes, checkedAt, prior>>
    /\ UNCHANGED pageVars

\* The row is built and save_user_item called.
Save(w) ==
    /\ pc[w] = "save"
    /\ LET row == NewRow(sub[w].user, sub[w].signature, bytes[w], now)
       IN \E ok \in BOOLEAN :
            IF ok /\ CanInsert(row)
            THEN /\ store' = store \cup {row}
                 /\ Advance(w, Step(<<"persist">>, "Created", Created), "done")
            ELSE /\ store' = store
                 /\ Advance(w, StorageError(<<"persist">>), "done")
    /\ UNCHANGED <<now, known, sub, opened, bytes, checkedAt, prior>>
    /\ UNCHANGED pageVars

\* The response is sent; the worker is free for the next request.
Reset(w) ==
    /\ pc[w] = "done"
    /\ pc' = [pc EXCEPT ![w] = "idle"]
    /\ sub' = [sub EXCEPT ![w] = NoSub]
    /\ opened' = [opened EXCEPT ![w] = FALSE]
    /\ bytes' = [bytes EXCEPT ![w] = <<>>]
    /\ outcome' = [outcome EXCEPT ![w] = NoOutcome]
    /\ failed' = [failed EXCEPT ![w] = "none"]
    /\ checks' = [checks EXCEPT ![w] = <<>>]
    /\ checkedAt' = [checkedAt EXCEPT ![w] = 0]
    /\ prior' = [prior EXCEPT ![w] = FALSE]
    /\ UNCHANGED <<now, known, store>>
    /\ UNCHANGED pageVars

\* What get_item answers on the outcome `found` of backend.user_item.
get_item(found) ==
    IF found.some THEN Resp(200, found.v.item_bytes) ELSE NoSuchItem

\* The keys a client can ask get_item for.
Keys == {[user |-> s.user, signature |-> s.signature] : s \in Subs}

\* A get_item request, whichever key it asks for and whether or not the
\* backend answers: the handler reads the store and responds; it keeps no
\* state and writes nothing.
GetItem ==
    /\ \A key \in Keys, ok \in BOOLEAN :
          LET response == IF ok THEN get_item(user_item(key.user, key.signature))
                                ELSE Err("backend")
          IN response.status \in {200, 404, 500}
    /\ UNCHANGED vars

\* Time passes.
Tick ==
    /\ now < MaxClock
    /\ now' = now + 1
    /\ UNCHANGED <<known, store>>
    /\ UNCHANGED reqVars
    /\ UNCHANGED pageVars

Next ==
    \/ \E w \in Workers : Start(w)
    \/ \E w \in Workers : Exists(w)
    \/ \E w \in Workers : Known(w)
    \/ \E w \in Workers : ReadChunk(w)
    \/ \E w \in Workers : ChunkError(w)
    \/ \E w \in Workers : EndOfBody(w)
    \/ \E w \in Workers : Abort(w)
    \/ \E w \in Workers : Quota(w)
    \/ \E w \in Workers : Save(w)
    \/ \E w \in Workers : Reset(w)
    \/ GetItem
    \/ Tick

Spec == Init /\ [][Next]_vars

TypeOK ==
    /\ now \in 1..MaxClock
    /\ \A w \in Workers : pc[w] \in {"idle", "exists", "known", "read", "quota", "save", "done"}

(***************************************************************************)
(* Properties of put_item.                                                 *)
(***************************************************************************)
Range(q) == {q[i] : i \in 1..Len(q)}
IsPrefix(p, q) == Len(p) <= Len(q) /\ \A i \in 1..Len(p) : p[i] = q[i]

\* The order of the admission checks (spec 4.3).
CheckOrder ==
    <<"length", "exists", "known", "signature", "decode", "timestamp", "quota", "persist">>

\* The check whose failure (or short circuit) each branch is.
CheckOf(branch) ==
    CASE branch \in {"LengthMissing", "LengthUnparseable", "HeaderError", "TooLarge"} -> "length"
      [] branch = "AlreadyAccepted" -> "exists"
      [] branch = "UnknownUser" -> "known"
      [] branch = "InvalidSignature" -> "signature"
      [] branch = "MalformedItem" -> "decode"
      [] branch = "FutureTimestamp" -> "timestamp"
      [] branch = "QuotaExceeded" -> "quota"
      [] branch = "Created" -> "persist"
      [] OTHER -> "-"

\* The rows of the store with the primary key of worker w's request.
RowsOf(w) ==
    {row \in store : row.user = sub[w].user /\ row.signature = sub[w].signature}

\* C1: the checks of every submission run in the order length, existence,
\* known user, signature, decoding and validation, timestamp, quota, persist;
\* the check that fails or short-circuits is the last one that runs.
C1_ChecksInOrder ==
    \A w \in Workers :
        /\ IsPrefix(checks[w], CheckOrder)
        /\ CheckOf(failed[w]) # "-" =>
             /\ checks[w] # <<>>
             /\ checks[w][Len(checks[w])] = CheckOf(failed[w])
        /\ pc[w] = "done" => failed[w] # "none"

\* C1 witness: a submission passed six checks and was stopped by the seventh.
C1_Witness ==
    \E w \in Workers :
        /\ failed[w] = "QuotaExceeded"
        /\ checks[w] = SubSeq(CheckOrder, 1, 7)

\* C2: a submission that begins after an identical one ended Created ends
\* "Item already exists" (unless the backend fails to open or to answer the
\* existence probe), and the store holds exactly one row for its key.
C2_Idempotent ==
    \A w \in Workers :
        prior[w] =>
            /\ Cardinality(RowsOf(w)) = 1
            /\ pc[w] = "done" =>
                 \/ outcome[w] = AlreadyExists
                 \/ failed[w] = "Storage" /\ checks[w] \in {<<"length">>, <<"length", "exists">>}

\* C2 witness: the second of two identical submissions was answered 202.
C2_Witness ==
    \E w \in Workers : prior[w] /\ outcome[w] = AlreadyExists

\* C3: the items stored for a user never exceed the user's budget, however
\* the quota checks and the saves of concurrent submissions interleave.
C3_QuotaNeverExceeded ==
    \A u \in Users : Usage(u) <= Budget

\* The rejections spec section 6 lists with a reason of their own.
Rejections ==
    {"TooLarge", "UnknownUser", "InvalidSignature", "MalformedItem",
     "FutureTimestamp", "QuotaExceeded"}

\* C4: each of the rejections TooLarge, UnknownUser, InvalidSignature,
\* MalformedItem, FutureTimestamp and QuotaExceeded is answered with a
\* response of its own, never with the handler's generic Err.
C4_SpecificReasons ==
    \A w \in Workers :
        failed[w] \in Rejections =>
            /\ outcome[w].kind = "Ok"
            /\ \A v \in Workers :
                 (failed[v] \in Rejections \cup {"Storage"} /\ failed[v] # failed[w])
                     => outcome[v].status # outcome[w].status

\* C5: the buffer of a handler never holds more than MAX_ITEM_SIZE bytes and
\* no stored item is larger than MAX_ITEM_SIZE.
C5_BufferBounded ==
    /\ \A w \in Workers : ByteLen(bytes[w]) <= MAX_ITEM_SIZE
    /\ \A row \in store : ByteLen(row.item_bytes) <= MAX_ITEM_SIZE

Verified(w) ==
    /\ bytes[w] = sub[w].body
    /\ IsValid(sub[w].signature, sub[w].user, bytes[w])
    /\ Parses(bytes[w])
    /\ validate(merge_from_bytes(bytes[w]))

\* C7: a step in which a transfer fails or is aborted leaves the store as it
\* is, and the store changes only in the save of a handler that has received
\* the complete body, verified its signature and decoded and validated it.
C7_PersistOnlyVerified ==
    [][ /\ \A w \in Workers :
             (failed'[w] \in {"Transfer", "Dropped"} /\ failed[w] = "none")
                 => store' = store
        /\ store' # store =>
             \E w \in Workers :
                 /\ pc[w] = "save"
                 /\ Verified(w)
                 /\ failed'[w] = "Created"
        /\ \A w \in Workers :
             failed[w] \in {"Transfer", "Dropped"} => "persist" \notin Range(checks[w])
      ]_vars

\* C7 witness: a transfer failed after a chunk had arrived, and an item of
\* another request is stored.
C7_Witness ==
    \E w \in Workers :
        /\ failed[w] = "Transfer"
        /\ bytes[w] # <<>>
        /\ store # {}

\* C8: the signature of every stored row is valid for the row's user over
\* the row's bytes, and the row a Created request stored holds the bytes the
\* request sent.
C8_RowsHoldSignedBytes ==
    /\ \A row \in store : IsValid(row.signature, row.user, row.item_bytes)
    /\ \A w \in Workers :
         failed[w] = "Created" =>
             \E row \in RowsOf(w) : row.item_bytes = sub[w].body

\* C8 witness: a stored row whose bytes are not what its parsed item would be
\* written back as.
C8_Witness ==
    \E row \in store : Reserialize(row.item_bytes) # row.item_bytes

\* C9: the request of a user outside the known-user set reads no body and
\* stores nothing, and is answered 403 when it reaches the check; no stored
\* row belongs to such a user.
C9_UnknownUserRejected ==
    /\ \A row \in store : row.user \in known
    /\ \A w \in Workers :
         (pc[w] # "idle" /\ sub[w].user \notin known) =>
             /\ pc[w] \in {"exists", "known", "done"}
             /\ bytes[w] = <<>>
             /\ "persist" \notin Range(checks[w])
             /\ ("known" \in Range(checks[w]) /\ failed[w] # "Storage")
                   => outcome[w] = UnknownUserID

\* C9 witness: a validly signed submission of an unknown user was answered 403.
C9_Witness ==
    \E w \in Workers :
        /\ sub[w].user \notin known
        /\ IsValid(sub[w].signature, sub[w].user, sub[w].body)
        /\ outcome[w] = UnknownUserID

\* C10: a submission that passed every check up to validation and whose
\* claimed timestamp is after the clock the handler read is answered 400
\* "timestamp is in the future" and goes no further; a Created request's
\* timestamp was not after that clock, and no stored row claims a time after
\* the node's clock.
C10_NoFutureTimestamp ==
    /\ \A w \in Workers :
         LET claimed == merge_from_bytes(bytes[w]).timestamp_ms_utc
         IN /\ ("decode" \in Range(checks[w]) /\ failed[w] # "MalformedItem"
                   /\ claimed > checkedAt[w])
                 => /\ failed[w] = "FutureTimestamp"
                    /\ outcome[w] = InFuture
                    /\ pc[w] = "done"
            /\ (pc[w] \in {"quota", "save"} \/ failed[w] = "Created")
                 => claimed <= checkedAt[w]
    /\ \A row \in store : row.timestamp <= now

\* C10 witness: a validly signed, valid item was rejected for its timestamp.
C10_Witness ==
    \E w \in Workers :
        /\ failed[w] = "FutureTimestamp"
        /\ Verified(w)
\* C11: a submission that passed every earlier check is answered
\* InsufficientStorage by the quota check exactly when the bytes stored for
\* its user plus its own size exceed the budget; otherwise the handler goes
\* on to save it, and the save stores its row and answers Created unless the
\* backend returns an error.
C11_QuotaIff ==
    [][\A w \in Workers :
         /\ (pc[w] = "quota" /\ pc'[w] # "quota" /\ failed'[w] # "Storage") =>
              /\ failed'[w] = "QuotaExceeded"
                   <=> Usage(sub[w].user) + ByteLen(bytes[w]) > Budget
              /\ outcome'[w] = InsufficientStorage
                   <=> Usage(sub[w].user) + ByteLen(bytes[w]) > Budget
              /\ failed'[w] # "QuotaExceeded" => pc'[w] = "save" /\ failed'[w] = "none"
              /\ store' = store
         /\ (pc[w] = "save" /\ pc'[w] # "save" /\ failed'[w] # "Storage") =>
              /\ outcome'[w] = Created
              /\ \E row \in store' \ store :
                   /\ row.user = sub[w].user
                   /\ row.signature = sub[w].signature
                   /\ row.item_bytes = bytes[w]]_vars

\* C11 witness: one submission was saved for a user who already had bytes
\* stored, and another of the same user was denied by the quota check.
C11_Witness ==
    \E w, q \in Workers :
        /\ failed[w] = "Created"
        /\ Usage(sub[w].user) > ByteLen(bytes[w])
        /\ failed[q] = "QuotaExceeded"
        /\ sub[q].user = sub[w].user

(***************************************************************************)
(* The listing handlers and the Paginator.                                 *)
(***************************************************************************)
\* The handlers that list items: two HTML pages built on inline callbacks,
\* one HTML page and three protobuf listings built on the Paginator.
Inline == {"view_homepage", "get_user_items"}
Paginated == {"homepage_item_list", "feed_item_list", "user_item_list", "get_user_feed"}
Endpoints == Inline \cup Paginated
\* The handlers that take a Pagination query.
Queried == Endpoints \ {"get_user_items"}

\* max_items of Paginator::new.
PaginatorMax == 100
\* `paginator.max_items = 1000` of the protobuf listings.
ListMax == 1000
\* view_homepage: bound(c, 1, 100), and 20 when no count is given.
HomepageMax == 100
HomepageDefault == 20
\* get_user_items: `let max_items = 10`.
UserItemsMax == 10

Min(a, b) == IF a <= b THEN a ELSE b
Max(a, b) == IF a >= b THEN a ELSE b

\* bound without the lower limit.
boundAbove(input, lower, upper) == Min(input, upper)

\* fn bound(input, lower, upper) = min(max(lower, input), upper)
bound(input, lower, upper) == Min(Max(lower, input), upper)

\* display_by_default that shows every item with a known type.
display_by_default_known(item) == item.item_type # "none"

\* fn display_by_default(item: &Item) -> bool
display_by_default(item) ==
    CASE item.item_type = "none" -> FALSE
      [] item.item_type = "post" -> TRUE
      [] item.item_type = "profile" -> FALSE

\* fn item_to_entry(item, user_id, signature) -> ItemListEntry
item_to_entry(item, user_id, signature) ==
    [timestamp_ms_utc |-> item.timestamp_ms_utc,
     signature |-> signature,
     user_id |-> user_id,
     item_type |-> CASE item.item_type = "post" -> "POST"
                     [] item.item_type = "profile" -> "PROFILE"
                     [] OTHER -> "UNKNOWN"]

\* IndexPageItem { row, item } (the display name of the row is not modelled).
IndexPageItem(row, item) == [row |-> row, item |-> item]

\* The mapper closure each handler gives its Paginator; it fails exactly
\* when merge_from_bytes does.
Mapper(e, row) ==
    IF e = "get_user_feed"
    THEN IndexPageItem(row, merge_from_bytes(row.item_bytes))
    ELSE item_to_entry(merge_from_bytes(row.item_bytes), row.user, row.signature)

\* The filter closure each handler gives its Paginator.
Filter(e, item) ==
    CASE e = "homepage_item_list" -> item.item_type = "POST"
      [] e = "get_user_feed" -> display_by_default(item.item)
      [] OTHER -> TRUE

\* What a callback leaves behind: the items, has_more, and what it returns
\* to the backend: Ok(true) "continue", Ok(false) "stop", Err "error".
Called(its, more, ret) == [items |-> its, has_more |-> more, ret |-> ret]

\* accept testing the bound before the filter.
acceptBoundFirst(e, p, c, m, input) ==
    LET max_len == IF c.some THEN bound(c.v, 1, m) ELSE m
    IN  IF ~Parses(input.item_bytes) THEN Called(p.items, p.has_more, "error")
        ELSE IF Len(p.items) >= max_len THEN Called(p.items, TRUE, "stop")
        ELSE IF ~Filter(e, Mapper(e, input)) THEN Called(p.items, p.has_more, "continue")
        ELSE Called(Append(p.items, Mapper(e, input)), p.has_more, "continue")

\* accept skipping a row its mapper fails on.
acceptSkipFailed(e, p, c, m, input) ==
    LET max_len == IF c.some THEN bound(c.v, 1, m) ELSE m
    IN  IF ~Parses(input.item_bytes) THEN Called(p.items, p.has_more, "continue")
        ELSE IF ~Filter(e, Mapper(e, input)) THEN Called(p.items, p.has_more, "continue")
        ELSE IF Len(p.items) >= max_len THEN Called(p.items, TRUE, "stop")
        ELSE Called(Append(p.items, Mapper(e, input)), p.has_more, "continue")

\* accept putting the new item in front of the items it holds.
acceptPrepend(e, p, c, m, input) ==
    LET max_len == IF c.some THEN bound(c.v, 1, m) ELSE m
    IN  IF ~Parses(input.item_bytes) THEN Called(p.items, p.has_more, "error")
        ELSE IF ~Filter(e, Mapper(e, input)) THEN Called(p.items, p.has_more, "continue")
        ELSE IF Len(p.items) >= max_len THEN Called(p.items, TRUE, "stop")
        ELSE Called(<<Mapper(e, input)>> \o p.items, p.has_more, "continue")

\* accept comparing the length with `>` where the code has `>=`.
acceptOffByOne(e, p, c, m, input) ==
    LET max_len == IF c.some THEN bound(c.v, 1, m) ELSE m
    IN  IF ~Parses(input.item_bytes) THEN Called(p.items, p.has_more, "error")
        ELSE IF ~Filter(e, Mapper(e, input)) THEN Called(p.items, p.has_more, "continue")
        ELSE IF Len(p.items) > max_len THEN Called(p.items, TRUE, "stop")
        ELSE Called(Append(p.items, Mapper(e, input)), p.has_more, "continue")

\* Paginator::accept of the Paginator of handler e, whose items and has_more
\* are p's, whose params.count is c and whose max_items is m.
accept(e, p, c, m, input) ==
    LET max_len == IF c.some THEN bound(c.v, 1, m) ELSE m
    IN  IF ~Parses(input.item_bytes) THEN Called(p.items, p.has_more, "error")
        ELSE IF ~Filter(e, Mapper(e, input)) THEN Called(p.items, p.has_more, "continue")
        ELSE IF Len(p.items) >= max_len THEN Called(p.items, TRUE, "stop")
        ELSE Called(Append(p.items, Mapper(e, input)), p.has_more, "continue")

\* The item_callback closure of view_homepage; m is its local max_items.
item_callback(p, m, row) ==
    IF ~Parses(row.item_bytes) THEN Called(p.items, p.has_more, "error")
    ELSE IF ~display_by_default(merge_from_bytes(row.item_bytes))
    THEN Called(p.items, p.has_more, "continue")
    ELSE IF Len(p.items) >= m THEN Called(p.items, TRUE, "stop")
    ELSE Called(Append(p.items, IndexPageItem(row, merge_from_bytes(row.item_bytes))),
                p.has_more, "continue")

\* collect_items that stops one row after the page is full.
collect_itemsLookAhead(p, m, row) ==
    IF ~Parses(row.item_bytes) THEN Called(p.items, p.has_more, "error")
    ELSE LET its == IF display_by_default(merge_from_bytes(row.item_bytes))
                    THEN Append(p.items, IndexPageItem(row, merge_from_bytes(row.item_bytes)))
                    ELSE p.items
         IN  Called(its, p.has_more, IF Len(its) <= m THEN "continue" ELSE "stop")

\* The collect_items closure of get_user_items, which has no has_more.
collect_items(p, m, row) ==
    IF ~Parses(row.item_bytes) THEN Called(p.items, p.has_more, "error")
    ELSE LET its == IF display_by_default(merge_from_bytes(row.item_bytes))
                    THEN Append(p.items, IndexPageItem(row, merge_from_bytes(row.item_bytes)))
                    ELSE p.items
         IN  Called(its, p.has_more, IF Len(its) < m THEN "continue" ELSE "stop")

\* The max_items a handler starts with, given the count of its query.
MaxItemsOf(e, c) ==
    CASE e = "view_homepage" -> IF c.some THEN bound(c.v, 1, HomepageMax) ELSE HomepageDefault
      [] e = "get_user_items" -> UserItemsMax
      [] e = "get_user_feed" -> PaginatorMax
      [] OTHER -> ListMax

\* Paginator::before, and max_time of the inline handlers: the time before
\* which the handler queries for items.
Before(q, t) == IF q.before.some THEN q.before.v ELSE t

\* The claimed timestamp an item of a page carries.
TimestampOf(it) ==
    IF "item" \in DOMAIN it THEN it.item.timestamp_ms_utc ELSE it.timestamp_ms_utc

\* more_items_link that links from every page that shows something.
more_items_linkNonEmpty(its, more, q) ==
    IF its = <<>> THEN None
    ELSE Some(Pagination(Some(its[Len(its)].item.timestamp_ms_utc), q.count))

\* Paginator::more_items_link: the query of the "More" link, if there is one.
more_items_link(its, more, q) ==
    IF ~more \/ its = <<>> THEN None
    ELSE Some(Pagination(Some(its[Len(its)].item.timestamp_ms_utc), q.count))

\* homepage_link with a cursor that includes the last item's timestamp.
homepage_linkInclusive(its, more, q, m) ==
    IF ~more \/ its = <<>> THEN None
    ELSE Some(Pagination(Some(its[Len(its)].item.timestamp_ms_utc + 1),
                         IF q.count.some THEN Some(m) ELSE None))

\* The "More" link view_homepage builds; m is its local max_items.
homepage_link(its, more, q, m) ==
    IF ~more \/ its = <<>> THEN None
    ELSE Some(Pagination(Some(its[Len(its)].item.timestamp_ms_utc),
                         IF q.count.some THEN Some(m) ELSE None))

\* The link of the page in the current state.
Link ==
    CASE ep = "view_homepage" -> homepage_link(items, has_more, params, max_items)
      [] ep = "get_user_feed" -> more_items_link(items, has_more, params)
      [] OTHER -> None

(***************************************************************************)
(* The backend's row producers (homepage_items, user_items,                *)
(* user_feed_items), as spec 4.5 and 4.6 state their contract.             *)
(***************************************************************************)
\* The rows a query with cursor `before` passes to its callback, in order:
\* those with a claimed timestamp below the cursor, newest first.
Stream(tbl, before) == SelectSeq(tbl, LAMBDA row : row.timestamp < before)

\* The identities the Profile encoded in bs follows.
Followed(bs) ==
    UNION {bs[i].follows : i \in {j \in 1..Len(bs) : "follows" \in DOMAIN bs[j]}}

\* backend.user_profile(&user): the latest profile of user among the rows
\* tbl (newest first), if there is one.
user_profile(tbl, user) ==
    LET profiles == SelectSeq(tbl, LAMBDA row :
                        /\ row.user = user
                        /\ \E i \in 1..Len(row.item_bytes) : row.item_bytes[i].f = "profile"
                        /\ Parses(row.item_bytes)
                        /\ merge_from_bytes(row.item_bytes).item_type = "profile")
    IN  IF profiles = <<>> THEN None ELSE Some(profiles[1])

\* backend.homepage_items: the items of the users the node knows.
homepage_items(tbl, users, before) ==
    Stream(SelectSeq(tbl, LAMBDA row : row.user \in users), before)

\* backend.user_items: the items of one user.
user_items(tbl, user, before) ==
    Stream(SelectSeq(tbl, LAMBDA row : row.user = user), before)

\* backend.user_feed_items: the items of user and of every identity the
\* latest profile of user follows, merged by descending claimed timestamp
\* (spec 4.6).
user_feed_items(tbl, user, before) ==
    LET profile == user_profile(tbl, user)
        authors == {user} \cup (IF profile.some THEN Followed(profile.v.item_bytes) ELSE {})
        \* the author set is looked up once, then the rows are filtered by it
        merged == {Stream(SelectSeq(tbl, LAMBDA row : row.user \in a), before) :
                     a \in {authors}}
    IN  CHOOSE rows \in merged : TRUE

\* The user of the /u/{user_id}/ routes.
PathUser == "u1"

\* The rows the backend passes to the callback of handler e, in order.
Scan(e, tbl, users, before) ==
    CASE e \in {"view_homepage", "homepage_item_list"} -> homepage_items(tbl, users, before)
      [] e \in {"user_item_list", "get_user_items"} -> user_items(tbl, PathUser, before)
      [] OTHER -> user_feed_items(tbl, PathUser, before)

\* The client of a protobuf listing asks for the next page with the claimed
\* timestamp of the last entry it received (spec 4.5, next-page cursor).
NextQuery(its, more, q) ==
    IF ~more \/ its = <<>> THEN None
    ELSE Some(Pagination(Some(its[Len(its)].timestamp_ms_utc), q.count))

(***************************************************************************)
(* The stores the listings run over.                                       *)
(***************************************************************************)
\* The row put_item stored for the bytes bs of `user`, and of user u1.
StoredBy(user, bs) == NewRow(user, Sign(user, bs), bs, merge_from_bytes(bs).timestamp_ms_utc)
Stored(bs) == StoredBy("u1", bs)

\* A row whose bytes no longer decode (the store was damaged).
Damaged(t) ==
    [user |-> "u1", signature |-> Sign("u1", <<TS(t)>>), timestamp |-> t,
     received |-> t, item_bytes |-> Garbage]

\* Seven rows, newest first: two posts share the claimed timestamp 3, a
\* profile, a damaged row and an item of a type this node does not know
\* share the claimed timestamp 2.
Universe ==
    << Stored(<<TS(4), POST(100)>>),
       Stored(<<TS(3), POST(100)>>),
       Stored(<<TS(3), POST(200)>>),
       Stored(<<TS(2), PROFILE(50)>>),
       Damaged(2),
       Stored(<<TS(2), PAD(10)>>),
       Stored(<<TS(1), POST(100)>>) >>

\* The rows of Universe whose index is in S, in the order of Universe.
Pick(S) == SelectSeq(Universe, LAMBDA row : \E i \in S : Universe[i] = row)

\* n posts with the claimed timestamps n, n - 1, ..., 1.
Run(n) == [i \in 1..n |-> Stored(<<TS(n + 1 - i), POST(100)>>)]

\* The lengths of the long stores: one row more than a page of the homepage
\* holds by default, one more than a page of a Paginator holds, and one more
\* than a protobuf listing holds.
RunLengths == {HomepageDefault + 1, PaginatorMax + 1, ListMax + 1}

ShortTables == {Pick(S) : S \in SUBSET (1..Len(Universe))}
LongTables == {Run(n) : n \in RunLengths}

\* n rows with the claimed timestamps n, n - 1, ..., 1: every third one a
\* profile, the others posts.
MixedRun(n) ==
    [i \in 1..n |-> IF i % 3 = 0 THEN Stored(<<TS(n + 1 - i), PROFILE(50)>>)
                                  ELSE Stored(<<TS(n + 1 - i), POST(100)>>)]

\* A store with one post more than a page of get_user_items holds, and
\* profiles between the posts.
MixedTables == {MixedRun(UserItemsMax + 6)}

\* Six rows of four authors, newest first: posts of u3, u1, u4 and u2, a
\* profile of u1 that follows u2 and u3, and an older one that follows u4.
FeedUniverse ==
    << StoredBy("u3", <<TS(5), POST(100)>>),
       StoredBy("u1", <<TS(4), POST(100)>>),
       StoredBy("u1", <<TS(3), FOLLOWING({"u2", "u3"}, 80)>>),
       StoredBy("u4", <<TS(3), POST(100)>>),
       StoredBy("u2", <<TS(2), POST(100)>>),
       StoredBy("u1", <<TS(1), FOLLOWING({"u4"}, 50)>>) >>

FeedTables ==
    {SelectSeq(FeedUniverse, LAMBDA row : \E i \in S : FeedUniverse[i] = row) :
        S \in SUBSET (1..Len(FeedUniverse))}

\* The queries tried: over a short store every count around the page sizes
\* it can fill and one above every maximum, with and without a cursor; over
\* a long store no count or a count above the maximum.
Queries(tbl) ==
    IF tbl \in LongTables
    THEN {Pagination(None, c) : c \in {None, Some(2000)}}
    ELSE {Pagination(b, c) : b \in {None, Some(3)},
                             c \in {None, Some(0), Some(1), Some(2), Some(2000)}}

(***************************************************************************)
(* The state machine of a listing request and of the reader who follows    *)
(* its pages.                                                              *)
(***************************************************************************)
\* The node holds one of the stores `tables`, and no request is in progress.
InitOver(tables) ==
    /\ \E tbl \in tables :
        /\ NoListing(tbl)
        /\ store = Range(tbl)
        /\ now = IF tbl = <<>> THEN 1 ELSE tbl[1].timestamp + 1
    /\ known = {"u1"} \cup {row.user : row \in store}
    /\ NoRequest

InitPage == InitOver(ShortTables \cup LongTables \cup FeedTables \cup MixedTables)

\* A handler starts on the query q.
Begin(e, q) ==
    /\ ep' = e
    /\ params' = q
    /\ max_items' = MaxItemsOf(e, q.count)
    /\ served' = 0
    /\ items' = <<>>
    /\ has_more' = FALSE
    /\ ppc' = "scan"
    /\ UNCHANGED table

\* A request for a listing arrives (the longest store is listed by the
\* protobuf listings only).
Request(e) ==
    /\ ppc = "idle"
    /\ Len(table) > PaginatorMax + 1 => e \in Paginated \ {"get_user_feed"}
    /\ \E q \in (IF e \in Queried THEN Queries(table) ELSE {Pagination(None, None)}) :
        /\ Begin(e, q)
        /\ origin' = Before(q, now)
    /\ visited' = <<>>
    /\ UNCHANGED putVars

\* The callback has run on the next row of the scan and left r behind.
Offered(r) ==
    /\ items' = r.items
    /\ has_more' = r.has_more
    /\ served' = served + 1
    /\ ppc' = CASE r.ret = "continue" -> "scan"
                [] r.ret = "stop" -> "page"
                [] OTHER -> "error"
    /\ UNCHANGED <<ep, params, max_items, table, visited, origin>>
    /\ UNCHANGED putVars

\* The row the backend passes to the callback next.
NextRow == Scan(ep, table, known, Before(params, now))[served + 1]
Collected == [items |-> items, has_more |-> has_more]

\* The backend passes the next row to paginator.callback().
Accept ==
    /\ ppc = "scan"
    /\ ep \in Paginated
    /\ served < Len(Scan(ep, table, known, Before(params, now)))
    /\ Offered(accept(ep, Collected, params.count, max_items, NextRow))

\* The backend passes the next row to view_homepage's item_callback.
ItemCallback ==
    /\ ppc = "scan"
    /\ ep = "view_homepage"
    /\ served < Len(Scan(ep, table, known, Before(params, now)))
    /\ Offered(item_callback(Collected, max_items, NextRow))

\* The backend passes the next row to get_user_items's collect_items.
CollectItems ==
    /\ ppc = "scan"
    /\ ep = "get_user_items"
    /\ served < Len(Scan(ep, table, known, Before(params, now)))
    /\ Offered(collect_items(Collected, max_items, NextRow))

\* The backend has no further row: the scan returns Ok and the page is built.
EndOfRows ==
    /\ ppc = "scan"
    /\ served = Len(Scan(ep, table, known, Before(params, now)))
    /\ ppc' = "page"
    /\ UNCHANGED <<ep, params, max_items, table, served, items, has_more, visited, origin>>
    /\ UNCHANGED putVars

\* The backend fails (open or the query): `.compat()?` leaves the handler.
BackendError ==
    /\ ppc = "scan"
    /\ ppc' = "error"
    /\ UNCHANGED <<ep, params, max_items, table, served, items, has_more, visited, origin>>
    /\ UNCHANGED putVars

\* The reader follows the "More" link of an HTML page.
FollowLink ==
    /\ ppc = "page"
    /\ Link.some
    /\ Begin(ep, Link.v)
    /\ visited' = visited \o items
    /\ UNCHANGED origin
    /\ UNCHANGED putVars

\* The client of a protobuf listing asks for the next page.
FollowList ==
    /\ ppc = "page"
    /\ ep \in Paginated \ {"get_user_feed"}
    /\ NextQuery(items, has_more, params).some
    /\ Begin(ep, NextQuery(items, has_more, params).v)
    /\ visited' = visited \o items
    /\ UNCHANGED origin
    /\ UNCHANGED putVars

NextPage ==
    \/ \E e \in Endpoints : Request(e)
    \/ Accept
    \/ ItemCallback
    \/ CollectItems
    \/ EndOfRows
    \/ BackendError
    \/ FollowLink
    \/ FollowList

SpecPage == InitPage /\ [][NextPage]_vars

(***************************************************************************)
(* Properties of the listings.                                             *)
(***************************************************************************)
\* The rows the running query scans, and those of the first page's query.
Scanned == Scan(ep, table, known, Before(params, now))
ScannedFrom(t) == Scan(ep, table, known, t)

\* Row `row` is one that handler e lists: every row for feed_item_list and
\* user_item_list, the posts for the others.
Shows(e, row) ==
    \/ e \in {"feed_item_list", "user_item_list"}
    \/ merge_from_bytes(row.item_bytes).item_type = "post"

\* The rows of `rows` that decode and that handler e lists.
Listed(e, rows) ==
    SelectSeq(rows, LAMBDA row : Parses(row.item_bytes) /\ Shows(e, row))

\* The signatures of a sequence of rows, and of a sequence of page items.
RowSigs(rows) == [i \in 1..Len(rows) |-> rows[i].signature]
SigOf(it) == IF "item" \in DOMAIN it THEN it.row.signature ELSE it.signature
ItemSigs(its) == [i \in 1..Len(its) |-> SigOf(its[i])]

\* The items the reader has seen: the pages left behind and the current one.
Shown == visited \o items

\* The page bound spec 4.5 gives the running query: min(max(c, 1), maximum),
\* and the maximum when no count is given.
Clamp(c, m) == Min(Max(c, 1), m)
PageBound ==
    CASE ep = "view_homepage" ->
           IF params.count.some THEN Clamp(params.count.v, HomepageMax) ELSE HomepageDefault
      [] ep = "get_user_items" -> UserItemsMax
      [] OTHER ->
           IF params.count.some THEN Clamp(params.count.v, max_items) ELSE max_items

\* The claimed timestamps of the rows of the store, which are in descending
\* order, differ pairwise, and every row decodes.
DistinctTimestamps ==
    /\ \A i \in 1..(Len(table) - 1) : table[i].timestamp > table[i + 1].timestamp
    /\ \A i \in 1..Len(table) : Parses(table[i].item_bytes)

\* C12: over a store whose rows decode and carry pairwise distinct claimed
\* timestamps, a page of a Paginator with an all-pass filter and a count k,
\* 1 <= k <= max_items, holds exactly the k newest rows below its cursor (all
\* n of them when n < k), newest first, with has_more = (n > k); and the
\* pages of a walk, each asked for with the claimed timestamp of the last
\* entry of the page before, are together the newest rows below the first
\* cursor, in order, with no gap and no duplicate.
C12_PageIsNewestK ==
    (/\ ep \in {"feed_item_list", "user_item_list"}
     /\ ppc = "page"
     /\ params.count.some
     /\ params.count.v >= 1
     /\ params.count.v <= max_items
     /\ DistinctTimestamps)
    => /\ ItemSigs(items)
            = RowSigs(SubSeq(Scanned, 1, Min(params.count.v, Len(Scanned))))
       /\ has_more = (Len(Scanned) > params.count.v)
       /\ \A i \in 1..Len(items) : items[i].timestamp_ms_utc = Scanned[i].timestamp
       /\ ItemSigs(Shown) = RowSigs(SubSeq(ScannedFrom(origin), 1, Len(Shown)))
       /\ ~has_more => Len(Shown) = Len(ScannedFrom(origin))

\* C12 witness: a walk over four rows with distinct timestamps, two to the
\* page, has reached its second and last page.
C12_Witness ==
    /\ ep \in {"feed_item_list", "user_item_list"}
    /\ DistinctTimestamps
    /\ params.count = Some(2)
    /\ ppc = "page"
    /\ Len(visited) = 2
    /\ Len(items) = 2
    /\ ~has_more

\* C13: a reader who follows the "More" links from the first page sees
\* every item the page lists exactly once: the pages read so far are the
\* newest listed items below the first cursor, in order, and when no link is
\* left they are all of them -- also when items share a claimed timestamp.
C13_EveryItemOnce ==
    (ep \in {"view_homepage", "get_user_feed"} /\ ppc = "page")
    => /\ ItemSigs(Shown)
            = RowSigs(SubSeq(Listed(ep, ScannedFrom(origin)), 1, Len(Shown)))
       /\ ~Link.some => Len(Shown) = Len(Listed(ep, ScannedFrom(origin)))

\* The walks over the short stores and the shortest of the long ones, with a
\* reader who keeps following and a backend that keeps answering.
InitWalk == InitOver(ShortTables \cup {Run(HomepageDefault + 1)})
SpecWalk == InitWalk /\ [][NextPage]_vars /\ WF_vars(NextPage)

\* C14: every next page is asked for with a cursor strictly below the cursor
\* of the page before, and every walk comes to an end: a page with
\* has_more = FALSE is reached, unless a request ends with an error.
C14_WalkEnds ==
    /\ [][(ppc = "page" /\ ppc' = "scan")
            => /\ params'.before.some
               /\ params'.before.v < Before(params, now)
               /\ Before(params', now') < Before(params, now)]_vars
    /\ <>(ppc = "error" \/ (ppc = "page" /\ ~has_more))

\* C14 witness: a walk of at least three pages has ended.
C14_Witness ==
    /\ ppc = "page"
    /\ ~has_more
    /\ Len(visited) >= 2
    /\ items # <<>>
    /\ params.before.some
    /\ params.before.v < origin - 1

\* C15: whatever count a query carries (none, 0, or more than the maximum),
\* the page never holds more items than min(max(count, 1), maximum) -- the
\* maximum when there is no count -- and a finished page holds that many
\* whenever the scan has that many items to list; view_homepage's local
\* max_items is that bound.
C15_EffectiveBound ==
    (ep \in Queried /\ ppc # "idle")
    => /\ Len(items) <= PageBound
       /\ PageBound >= 1
       /\ ep = "view_homepage" => max_items = PageBound
       /\ ppc = "page" => Len(items) = Min(PageBound, Len(Listed(ep, Scanned)))

\* C15 witness: a query with count = 0 returned a page of one item and left
\* more behind.
C15_Witness ==
    /\ ep \in Queried
    /\ ppc = "page"
    /\ params.count = Some(0)
    /\ Len(items) = 1
    /\ has_more

\* A row the handler lists was passed to the callback when the page was
\* full: more rows it lists were offered than the page can hold.
OfferedAfterFull == Len(Listed(ep, SubSeq(Scanned, 1, served))) > PageBound

\* C16: in every call of Paginator.accept on a row that decodes: a row that
\* fails the filter leaves items and has_more as they are and signals
\* continue, also when the page is full; a row that passes is appended and
\* signals continue while the page holds fewer items than the bound, and
\* otherwise sets has_more, signals stop and leaves the items as they are.
\* After every call, has_more holds exactly if a row that passes the filter
\* was offered when the page was full.
C16_AcceptCases ==
    [][(ppc = "scan" /\ ep \in Paginated /\ served' = served + 1
          /\ Parses(NextRow.item_bytes))
        => /\ ~Shows(ep, NextRow)
                => items' = items /\ has_more' = has_more /\ ppc' = "scan"
           /\ (Shows(ep, NextRow) /\ Len(items) < PageBound)
                => /\ items' = Append(items, Mapper(ep, NextRow))
                   /\ has_more' = has_more
                   /\ ppc' = "scan"
           /\ (Shows(ep, NextRow) /\ Len(items) >= PageBound)
                => items' = items /\ has_more' /\ ppc' = "page"
           /\ has_more' <=> OfferedAfterFull']_vars

\* C16 witness: the page of a Paginator was full, a row that fails its
\* filter was offered, and the scan goes on.
C16_Witness ==
    /\ ep \in Paginated
    /\ ppc = "scan"
    /\ served >= 2
    /\ Len(items) = PageBound
    /\ Parses(Scanned[served].item_bytes)
    /\ ~Shows(ep, Scanned[served])

\* C17: when the bytes of the row passed to a callback do not decode, the
\* call leaves items and has_more as they are and the request ends with an
\* error: no step follows an error (no further row is asked for, no page is
\* rendered), and no page is rendered from a scan that met such a row.
C17_MapperFailureEnds ==
    [][/\ ppc # "error"
       /\ (ppc = "scan" /\ served' = served + 1 /\ ~Parses(NextRow.item_bytes))
            => /\ ppc' = "error"
               /\ items' = items
               /\ has_more' = has_more
       /\ ppc' = "page"
            => SelectSeq(SubSeq(Scanned', 1, served'),
                         LAMBDA row : ~Parses(row.item_bytes)) = <<>>]_vars

\* C17 witness: a scan that had collected an item ended with an error on a
\* row whose bytes do not decode.
C17_Witness ==
    /\ ppc = "error"
    /\ items # <<>>
    /\ served >= 2
    /\ ~Parses(Scanned[served].item_bytes)

\* The handlers that build a default timeline page.
DefaultTimeline ==
    {"view_homepage", "homepage_item_list", "get_user_feed", "get_user_items"}

\* The item of a page is a post.
IsPost(it) ==
    IF "item" \in DOMAIN it THEN it.item.item_type = "post" ELSE it.item_type = "POST"

\* C18: display_by_default holds for the Post variant and for nothing else,
\* and the items of a default timeline page are posts: they are the newest
\* posts of the scan, in order, so that a profile or an item of unknown
\* type neither appears nor takes a place of the page.
C18_OnlyPosts ==
    /\ \A t \in {"none", "post", "profile"} :
         display_by_default([NewItem EXCEPT !.item_type = t]) <=> t = "post"
    /\ ep \in DefaultTimeline
         => /\ \A i \in 1..Len(items) : IsPost(items[i])
            /\ ItemSigs(items) = RowSigs(SubSeq(Listed(ep, Scanned), 1, Len(items)))
            /\ ppc = "page" => Len(items) = Min(PageBound, Len(Listed(ep, Scanned)))

\* C18 witness: a page of two posts is full although a profile and an item
\* of unknown type were scanned after its first post.
C18_Witness ==
    /\ ep \in DefaultTimeline
    /\ ppc = "page"
    /\ has_more
    /\ Len(items) = 2
    /\ \E i, j \in 2..served :
         /\ merge_from_bytes(Scanned[i].item_bytes).item_type = "profile"
         /\ merge_from_bytes(Scanned[j].item_bytes).item_type = "none"
         /\ Parses(Scanned[j].item_bytes)

\* C19: a query without a count returns at most 20 items from each HTML
\* listing (homepage, a user's items, a user's feed) and at most 1000 from
\* each protobuf listing; a query without `before` scans from the node's
\* current time.
C19_DefaultPageSizes ==
    (ep # "none" /\ ~params.count.some)
    => /\ ep \in {"view_homepage", "get_user_items", "get_user_feed"}
            => Len(items) <= HomepageDefault
       /\ ep \in {"homepage_item_list", "feed_item_list", "user_item_list"}
            => Len(items) <= ListMax
       /\ ~params.before.some => Before(params, now) = now

RECURSIVE Paginate(_, _, _, _, _)
\* The items and has_more a Paginator of handler e, with params.count c and
\* max_items m, ends with when the backend passes it `rows`, and what its last
\* call returned.
Paginate(e, p, c, m, rows) ==
    IF rows = <<>> THEN Called(p.items, p.has_more, "continue")
    ELSE LET r == accept(e, p, c, m, Head(rows))
         IN  IF r.ret = "continue"
             THEN Paginate(e, [items |-> r.items, has_more |-> r.has_more], c, m, Tail(rows))
             ELSE r

\* C20: the page the inline callback of view_homepage or of get_user_items
\* builds has the items and the has_more that a Paginator with the
\* display_by_default filter (the one of get_user_feed), the same count and
\* the same maximum builds from the same rows.
C20_SamePagination ==
    (ep \in Inline /\ ppc = "page")
    => LET r == Paginate("get_user_feed", [items |-> <<>>, has_more |-> FALSE],
                         params.count, max_items, Scanned)
       IN  /\ r.ret # "error"
           /\ items = r.items
           /\ has_more = r.has_more

\* The identities whose items the feed of PathUser holds: PathUser and those
\* the newest profile of PathUser in the store follows.
FeedAuthors ==
    {PathUser} \cup
    UNION {Followed(row.item_bytes) :
             row \in {r \in store :
                        /\ r.user = PathUser
                        /\ merge_from_bytes(r.item_bytes).item_type = "profile"
                        /\ \A q \in store :
                             (q.user = PathUser
                                /\ merge_from_bytes(q.item_bytes).item_type = "profile")
                             => q.timestamp <= r.timestamp}}

\* The rows of the store, newest first, that the authors of the feed wrote
\* before the cursor of the running query.
FeedRows ==
    SelectSeq(table, LAMBDA row :
        row.user \in FeedAuthors /\ row.timestamp < Before(params, now))

\* C21 as stated: a page of a feed listing holds the newest items of
\* PathUser and of the identities PathUser's latest profile follows, below
\* the cursor, in descending order of claimed timestamp, up to the page bound.
C21_FeedIsMerge ==
    (ep \in {"feed_item_list", "get_user_feed"} /\ ppc = "page")
    => ItemSigs(items) = RowSigs(SubSeq(FeedRows, 1, Min(PageBound, Len(FeedRows))))

\* C21 for what each handler lists: feed_item_list returns those items, and
\* get_user_feed the posts among them: the newest of them below the cursor,
\* in descending order of claimed timestamp (one merge over the authors), up
\* to the page bound.
C21_FeedIsMergeOfListed ==
    (ep \in {"feed_item_list", "get_user_feed"} /\ ppc = "page")
    => /\ ItemSigs(items)
            = RowSigs(SubSeq(Listed(ep, FeedRows), 1,
                             Min(PageBound, Len(Listed(ep, FeedRows)))))
       /\ \A i \in 1..(Len(items) - 1) :
            TimestampOf(items[i]) >= TimestampOf(items[i + 1])

\* C21 witness: the feed page of u1, who follows u2 and u3, holds the posts
\* of u3 (claimed 5), u1 (4) and u2 (2), in this order.
C21_Witness ==
    /\ ep = "get_user_feed"
    /\ ppc = "page"
    /\ ItemSigs(items) = RowSigs(<<FeedUniverse[1], FeedUniverse[2], FeedUniverse[5]>>)
    /\ Len(table) = Len(FeedUniverse)


\* A worker whose probe of user_item_exists answers in this step.
Probes(w) == pc[w] = "exists" /\ pc'[w] # "exists" /\ failed'[w] # "Storage"

\* C22: the store is append-only.  Over every step of submissions and
\* lookups that changes the store, a row that exists stays as it is, so
\* get_item for its key answers 200 with the same bytes before and after the
\* step (a step that leaves the store alone leaves the answers of get_item,
\* which reads nothing else, alone too); and a submission whose
\* probe finds its (user, signature) stored, whatever bytes it carries, ends
\* with 202 "Item already exists" and leaves the store alone.
C22_AppendOnly ==
    [][ /\ \A row \in (IF store' = store THEN {} ELSE store) :
            /\ row \in store'
            /\ get_item(user_item(row.user, row.signature)).status = 200
            /\ get_item(user_item(row.user, row.signature))'.status = 200
            /\ get_item(user_item(row.user, row.signature))'.body = row.item_bytes
        /\ \A w \in Workers :
            (Probes(w) /\ user_item_exists(sub[w].user, sub[w].signature))
               => outcome'[w] = AlreadyExists /\ store' = store ]_vars

\* A submission carrying other bytes than the row stored under its key was
\* answered 202, with two rows in the store.
C22_Witness ==
    \E w \in Workers :
        /\ pc[w] = "done"
        /\ outcome[w] = AlreadyExists
        /\ user_item(sub[w].user, sub[w].signature).some
        /\ user_item(sub[w].user, sub[w].signature).v.item_bytes # sub[w].body
        /\ get_item(user_item(sub[w].user, sub[w].signature)).body = PostA
        /\ Cardinality(store) >= 2


\* Worker w runs save_user_item in this step while another worker has just
\* persisted the same submission: both passed user_item_exists before either
\* saved.
SavesSecond(w) ==
    /\ pc[w] = "save"
    /\ pc'[w] = "done"
    /\ \E q \in Workers \ {w} :
         pc[q] = "done" /\ sub[q] = sub[w] /\ outcome[q] = Created

\* C23: of two concurrent submissions of the same valid (user, signature,
\* bytes) that both pass the existence check before either persists, the one
\* that saves second also ends as Created or as the 202 duplicate answer,
\* never as an error, and one row is stored under the key.
C23_BothAccepted ==
    [][ \A w \in Workers :
          SavesSecond(w)
            => /\ outcome'[w] \in {Created, AlreadyExists}
               /\ Cardinality({row \in store' : /\ row.user = sub[w].user
                                                 /\ row.signature = sub[w].signature}) = 1 ]_vars


\* The put_item execution of worker w ends in this step.
Ends(w) == pc[w] # "done" /\ pc'[w] = "done"

\* C24: the step that ends a put_item execution with 201 Created adds exactly
\* one row, under the submitted (user, signature); the step that ends it with
\* any other outcome (a rejection, 202, an error, a dropped request) leaves
\* the rows, every user's usage and every user's latest profile as they were;
\* and no other step of an execution changes the store.
C24_Frame ==
    [][ /\ \A w \in Workers :
            Ends(w) =>
              IF outcome'[w] = Created
              THEN \E row \in store' \ store :
                     /\ row.user = sub[w].user
                     /\ row.signature = sub[w].signature
                     /\ store' = store \cup {row}
              ELSE /\ store' = store
                   /\ \A u \in Users :
                        /\ Usage(u)' = Usage(u)
                        /\ latest_profile(store', u) = latest_profile(store, u)
        /\ store' # store => \E w \in Workers : Ends(w) /\ outcome'[w] = Created ]_vars

\* One execution ended Created with its row stored while another was refused
\* for quota and its bytes are not in the store.
C24_Witness ==
    \E w, q \in Workers :
        /\ pc[w] = "done" /\ outcome[w] = Created
        /\ pc[q] = "done" /\ outcome[q] = InsufficientStorage
        /\ user_item_exists(sub[w].user, sub[w].signature)
        /\ ~user_item_exists(sub[q].user, sub[q].signature)
        /\ Cardinality(store) = 1


\* C25: in every state of a Paginator (its max_items is 100 or 1000, so at
\* least 1), has_more implies that the items are not empty and are exactly
\* as many as the effective bound; and on the Paginator of index-page items,
\* more_items_link gives a link exactly when has_more holds, its cursor the
\* claimed timestamp of the last item and its count the request's.
C25_HasMoreMeansFull ==
    (ep \in Paginated /\ max_items >= 1)
    => /\ has_more => (items # <<>> /\ Len(items) = PageBound)
       /\ ep = "get_user_feed"
            => LET link == more_items_link(items, has_more, params)
               IN /\ link.some <=> has_more
                  /\ link.some => /\ link.v.before = Some(TimestampOf(items[Len(items)]))
                                  /\ link.v.count = params.count

\* A page of the user's feed is full with a row left over, and links on from
\* the timestamp of its last item; the page holds more than one item.
C25_Witness ==
    /\ ep = "get_user_feed"
    /\ ppc = "page"
    /\ has_more
    /\ Len(items) = PageBound
    /\ Len(items) > 1
    /\ Link = Some(Pagination(Some(TimestampOf(items[Len(items)])), params.count))


\* C26: with a clock that never goes backwards, every row put_item has
\* persisted has a claimed timestamp no later than its received timestamp,
\* and its claimed timestamp is the one its own item_bytes decode to.
C26_ClaimedNotAfterReceived ==
    \A row \in store :
        /\ row.timestamp <= row.received
        /\ row.timestamp = merge_from_bytes(row.item_bytes).timestamp_ms_utc

\* The store holds a row received after its claimed time, a row received at
\* its claimed time, and a row whose bytes carry two timestamp fields.
C26_Witness ==
    /\ \E row \in store : row.timestamp < row.received
    /\ \E row \in store : row.timestamp = row.received
    /\ \E row \in store : row.item_bytes = NonCanon /\ row.timestamp = 1


\* C27: in every call of get_user_items's collect_items on a row that
\* decodes: a row that is not displayable by default leaves the items as
\* they are and the scan goes on; a displayable row is appended; the call
\* signals continue exactly if fewer than 10 items are collected after it, so
\* the call that collects the 10th item stops the scan, with that row the
\* last one pulled; and the page never holds more than 10 items.
C27_CollectItemsStopsAtTen ==
    [][(ep = "get_user_items" /\ ppc = "scan" /\ served' = served + 1
          /\ Parses(NextRow.item_bytes))
        => LET shown == display_by_default(merge_from_bytes(NextRow.item_bytes))
           IN /\ ~shown => items' = items /\ ppc' = "scan"
              /\ shown => items' = Append(items, IndexPageItem(NextRow,
                                            merge_from_bytes(NextRow.item_bytes)))
              /\ ppc' = "scan" <=> Len(items') < UserItemsMax
              /\ ppc' # "scan" => /\ ppc' = "page"
                                  /\ shown
                                  /\ Len(items) = UserItemsMax - 1
                                  /\ items'[UserItemsMax].row = Scanned[served']
              /\ Len(items) < UserItemsMax
              /\ Len(items') <= UserItemsMax]_vars

\* The page of get_user_items holds 10 items, rows that are not displayable
\* were skipped on the way, the last row pulled is the 10th item, and rows
\* are left in the store that were never pulled.
C27_Witness ==
    /\ ep = "get_user_items"
    /\ ppc = "page"
    /\ Len(items) = UserItemsMax
    /\ served > UserItemsMax
    /\ served < Len(Scanned)
    /\ items[UserItemsMax].row = Scanned[served]

=============================================================================
